---- MODULE Spec2Model ----
(***************************************************************************)
(* Booking & Property Management API (NestJS + Prisma).                    *)
(*                                                                         *)
(* The model follows the service layer: PropertiesService and              *)
(* BookingsService working on the Property and Booking tables.             *)
(*                                                                         *)
(* Representation choices:                                                 *)
(*  - a date string is the tuple of its dash-separated numeric fields:     *)
(*    "02-01-2025" is <<2, 1, 2025>> and "2025-01-02" is <<2025, 1, 2>>,   *)
(*    which is what String.split('-') followed by parseInt/Number sees;    *)
(*  - a JavaScript Date is its time value counted in days since            *)
(*    1970-01-01, NaN standing for "Invalid Date"; the server's local      *)
(*    time zone is UTC, so local midnight and UTC midnight coincide;       *)
(*  - Prisma's generated uuid keys are numbered in order of creation and   *)
(*    never reused.                                                        *)
(***************************************************************************)
EXTENDS Integers, Sequences, FiniteSets, TLC

(***************************************************************************)
(* Bounds of the model.                                                    *)
(***************************************************************************)
MaxDay == 2
MaxMonth == 2
MaxProperties == 2
MaxBookings == 2
MaxTicks == 1
MaxTasks == 2
MaxDayField == 31
MaxMonthField == 12
MaxRangeDay == 4

(***************************************************************************)
(* Calendar arithmetic of the JavaScript Date built-in.                    *)
(***************************************************************************)
NaN == -1

\* Day number (days since 1970-01-01) of the proleptic Gregorian date
\* y-m-d, m in 1..12, d any integer >= 1 (days past the month's end run on).
MakeDay(y, m, d) ==
  LET yy  == IF m <= 2 THEN y - 1 ELSE y
      era == yy \div 400
      yoe == yy - era * 400
      mp  == IF m > 2 THEN m - 3 ELSE m + 9
      doy == (153 * mp + 2) \div 5 + d - 1
      doe == yoe * 365 + yoe \div 4 - yoe \div 100 + doy
  IN  era * 146097 + doe - 719468

\* new Date(year, monthIndex, day): years 0..99 mean 1900..1999, month and
\* day overflow is carried into the following months and years.
NewDateYMD(year, monthIndex, day) ==
  LET fullYear == IF year >= 0 /\ year <= 99 THEN 1900 + year ELSE year
  IN  MakeDay(fullYear + monthIndex \div 12, (monthIndex % 12) + 1, day)

\* Number of days of month m (1..12) of year y.
DaysInMonth(y, m) ==
  IF m = 12 THEN 31 ELSE MakeDay(y, m + 1, 1) - MakeDay(y, m, 1)

\* Date.prototype.getFullYear / getMonth()+1 / getDate of a time value,
\* as the tuple <<year, month, day>>.
CivilFromDays(t) ==
  LET z   == t + 719468
      era == z \div 146097
      doe == z - era * 146097
      yoe == (doe - doe \div 1460 + doe \div 36524 - doe \div 146096) \div 365
      doy == doe - (365 * yoe + yoe \div 4 - yoe \div 100)
      mp  == (5 * doy + 2) \div 153
      d   == doy - (153 * mp + 2) \div 5 + 1
      m   == IF mp < 10 THEN mp + 3 ELSE mp - 9
      y   == yoe + era * 400 + (IF m <= 2 THEN 1 ELSE 0)
  IN  <<y, m, d>>

\* date.toISOString().slice(0, 10): the string "YYYY-MM-DD".
toISODate(t) == CivilFromDays(t)

\* /^\d{2}-\d{2}-\d{4}$/ : two digits, two digits, four digits.
MatchesDDMMYYYY(s) ==
  /\ Len(s) = 3
  /\ s[1] \in 0..99 /\ s[2] \in 0..99 /\ s[3] \in 1000..9999

\* new Date(string) as V8 (Node.js) evaluates it.  An ISO "YYYY-MM-DD"
\* string is that date at UTC midnight.  A "NN-NN-YYYY" string is not ISO
\* and falls to V8's legacy parser, which reads it as MONTH-DAY-YEAR in
\* local time and yields Invalid Date when the first field is not a month.
NewDateString(s) ==
  IF MatchesDDMMYYYY(s)
    THEN IF s[1] \in 1..12 /\ s[2] \in 1..31
           THEN NewDateYMD(s[3], s[1] - 1, s[2])
           ELSE NaN
    ELSE IF s[2] \in 1..12 /\ s[3] \in 1..DaysInMonth(s[1], s[2])
           THEN MakeDay(s[1], s[2], s[3])
           ELSE NaN

(***************************************************************************)
(* InputUtils                                                              *)
(***************************************************************************)
\* const [day, month, year] = dateString.split('-');
\* return new Date(parseInt(year), parseInt(month) - 1, parseInt(day));
parseDate(dateString) ==
  NewDateYMD(dateString[3], dateString[2] - 1, dateString[1])

\* Mutant of isValidDateRange: the comparison is not strict.
isValidDateRange_nonStrict(startDate, endDate) ==
  startDate # NaN /\ endDate # NaN /\ startDate <= endDate

\* new Date(startDate) < new Date(endDate); any comparison with NaN is false.
isValidDateRange(startDate, endDate) ==
  startDate # NaN /\ endDate # NaN /\ startDate < endDate

\* Mutant of isFutureDate: a date equal to the clock passes.
isFutureDate_orNow(date, clock) == date # NaN /\ date >= clock

\* new Date(date) > new Date()
isFutureDate(date, clock) ==
  date # NaN /\ date > clock

isPositiveNumber(value) == value > 0

\* Mutant of isValidDateFormat: the pattern alone decides.
isValidDateFormat_regexOnly(dateString) ==
  MatchesDDMMYYYY(dateString)

\* IsDDMMYYYYDate / InputUtils.isValidDateFormat
isValidDateFormat(dateString) ==
  /\ MatchesDDMMYYYY(dateString)
  /\ LET day   == dateString[1]
         month == dateString[2]
         year  == dateString[3]
         date  == CivilFromDays(NewDateYMD(year, month - 1, day))
     IN  date[3] = day /\ date[2] = month /\ date[1] = year

(***************************************************************************)
(* Request inputs.                                                         *)
(***************************************************************************)
Years == {2025}

\* The DD-MM-YYYY strings that pass the DTO validation (IsDDMMYYYYDate).
DateStrings ==
  {s \in (1..MaxDay) \X (1..MaxMonth) \X Years : isValidDateFormat(s)}

\* An optional DTO field that is absent (undefined).
None == <<>>
NoId == 0
NoName == ""

PropertyIds == 1..MaxProperties
BookingIds == 1..MaxBookings
Prices == {0, 150}

(***************************************************************************)
(* State.                                                                  *)
(***************************************************************************)
VARIABLES
  properties,     \* Property table: id -> row
  propertyCount,  \* number of Property ids issued so far
  bookings,       \* Booking table: the rows in order of creation, id = index
  now,            \* the clock read by new Date()
  response,       \* the response to the request just handled, if any
  request,        \* history: the request just handled, if any
  before,         \* history: the tables as that request found them
  tasks           \* the requests in flight: each one's position and locals

vars ==
  <<properties, propertyCount, bookings, now, response, request, before, tasks>>

Response(op, kind, message, data) ==
  [op |-> op, kind |-> kind, message |-> message, data |-> data]

\* No request has been handled since the last response was sent.
NoResponse == Response("none", "none", "", None)

\* The request a handler was called with.
Request(op, id, dto) == [op |-> op, id |-> id, dto |-> dto]

NoRequest == Request("none", NoId, None)

\* The tables as they are now.
Tables == [properties |-> properties, bookings |-> bookings]

NoTables == [properties |-> [i \in {} |-> None], bookings |-> <<>>]

\* A request in flight: the await it is suspended at (pc), what it was called
\* with, the values it read that it still uses (locals), and its outcome.
Task(pc, op, id, dto, locals, result) ==
  [pc |-> pc, op |-> op, id |-> id, dto |-> dto, locals |-> locals,
   result |-> result]

IdleTask == Task("idle", "none", NoId, None, None, NoResponse)

TaskIds == 1..MaxTasks

NoneInFlight == \A t \in TaskIds : tasks[t] = IdleTask

\* A handler is entered with the server idle and runs to its response with
\* no other request in flight; the history variables record what it was
\* called with.
Receive(op, id, dto) ==
  /\ response = NoResponse
  /\ NoneInFlight
  /\ request' = Request(op, id, dto)
  /\ before' = Tables
  /\ UNCHANGED tasks

\* The first instant of the model: the day before the first bookable date.
Epoch == MakeDay(2025, 1, 1) - 1

Init ==
  /\ properties = [i \in {} |-> None]
  /\ propertyCount = 0
  /\ bookings = <<>>
  /\ now = Epoch
  /\ response = NoResponse
  /\ request = NoRequest
  /\ before = NoTables
  /\ tasks = [t \in TaskIds |-> IdleTask]

\* The clock advances to a later day.
Tick ==
  /\ response = NoResponse
  /\ now < Epoch + MaxTicks
  /\ now' = now + 1
  /\ UNCHANGED <<properties, propertyCount, bookings, response, request, before,
                 tasks>>

\* The response has been sent; the server is ready for the next request.
Return ==
  /\ response # NoResponse
  /\ response' = NoResponse
  /\ request' = NoRequest
  /\ before' = NoTables
  /\ UNCHANGED <<properties, propertyCount, bookings, now, tasks>>

(***************************************************************************)
(* PropertiesService                                                       *)
(***************************************************************************)
\* The parseDate local to PropertiesService.create: a DD-MM-YYYY string is
\* rewritten to `${year}-${month}-${day}` and handed to new Date(string).
PropertiesService_create_parseDate(dateStr) ==
  IF MatchesDDMMYYYY(dateStr)
    THEN NewDateString(<<dateStr[3], dateStr[2], dateStr[1]>>)
    ELSE NewDateString(dateStr)

PropertiesService_create(dto) ==
  LET availableFromDate == PropertiesService_create_parseDate(dto.availableFrom)
      availableToDate   == PropertiesService_create_parseDate(dto.availableTo)
      id                == propertyCount + 1
  IN
  /\ Receive("properties.create", NoId, dto)
  /\ UNCHANGED <<bookings, now>>
  /\ IF ~isValidDateRange(availableFromDate, availableToDate)
       THEN /\ response' = Response("properties.create", "BadRequest",
                 "Available from date must be before available to date", None)
            /\ UNCHANGED <<properties, propertyCount>>
     ELSE IF ~isPositiveNumber(dto.pricePerNight)
       THEN /\ response' = Response("properties.create", "BadRequest",
                 "Price per night must be a positive number", None)
            /\ UNCHANGED <<properties, propertyCount>>
     ELSE /\ id <= MaxProperties
          /\ properties' = [i \in DOMAIN properties \cup {id} |->
               IF i = id
                 THEN [pricePerNight |-> dto.pricePerNight,
                       availableFrom |-> availableFromDate,
                       availableTo   |-> availableToDate,
                       status        |-> "active"]
                 ELSE properties[i]]
          /\ propertyCount' = id
          /\ response' = Response("properties.create", "Success",
               "Property created successfully",
               [id |-> id,
                availableFrom |-> toISODate(availableFromDate),
                availableTo   |-> toISODate(availableToDate)])

\* bookings.map(b => ({ startDate: ...slice(0, 10), endDate: ... })) over
\* booking.findMany({ where: { propertyId: id } }): every row of the
\* property, in table order.
bookedDates(rows, propertyId) ==
  LET ids == SelectSeq([i \in 1..Len(rows) |-> i],
                       LAMBDA i : rows[i].propertyId = propertyId)
  IN  [k \in 1..Len(ids) |->
         [startDate |-> toISODate(rows[ids[k]].startDate),
          endDate   |-> toISODate(rows[ids[k]].endDate)]]

\* The data of findOne's response: the dates are "YYYY-MM-DD" strings.
formattedProperty(id) ==
  [id            |-> id,
   availableFrom |-> toISODate(properties[id].availableFrom),
   availableTo   |-> toISODate(properties[id].availableTo),
   bookedDates   |-> bookedDates(bookings, id)]

PropertiesService_findOne(id) ==
  /\ Receive("properties.findOne", id, None)
  /\ UNCHANGED <<properties, propertyCount, bookings, now>>
  /\ IF id \notin DOMAIN properties
       THEN response' = Response("properties.findOne", "NotFound",
                                 "Property not found", None)
       ELSE response' = Response("properties.findOne", "Success",
                                 "Property successfully retrieved",
                                 formattedProperty(id))

PropertiesService_getAvailability(id) ==
  /\ Receive("properties.getAvailability", id, None)
  /\ UNCHANGED <<properties, propertyCount, bookings, now>>
  /\ IF id \notin DOMAIN properties
       THEN response' = Response("properties.getAvailability", "NotFound",
                                 "Property not found", None)
       ELSE response' = Response("properties.getAvailability", "Success",
              "Availability retrieved successfully",
              [availableFrom |-> toISODate(properties[id].availableFrom),
               availableTo   |-> toISODate(properties[id].availableTo),
               bookedDates   |-> bookedDates(bookings, id)])

\* An UpdatePropertyDto without pricePerNight (undefined).
NoPrice == -1

\* update: the supplied dates are parsed with InputUtils.parseDate; a date
\* supplied alone is compared with the other bound as findOne returned it,
\* a "YYYY-MM-DD" string, parsed with InputUtils.parseDate as well.
PropertiesService_update(id, dto) ==
  LET hasFrom           == dto.availableFrom # None
      hasTo             == dto.availableTo # None
      availableFromDate == parseDate(dto.availableFrom)
      availableToDate   == parseDate(dto.availableTo)
      found             == id \in DOMAIN properties
      existingProperty  == formattedProperty(id)
      Reject(kind, message) ==
        /\ response' = Response("properties.update", kind, message, None)
        /\ UNCHANGED properties
  IN
  /\ Receive("properties.update", id, dto)
  /\ UNCHANGED <<propertyCount, bookings, now>>
  /\ IF ~found
       THEN Reject("NotFound", "Property not found")
     ELSE IF hasFrom /\ hasTo
             /\ ~isValidDateRange(availableFromDate, availableToDate)
       THEN Reject("BadRequest",
                   "Available from date must be before available to date")
     ELSE IF hasFrom /\ ~hasTo
             /\ ~isValidDateRange(availableFromDate,
                                  parseDate(existingProperty.availableTo))
       THEN Reject("BadRequest",
              "Available from date must be before existing available to date")
     ELSE IF ~hasFrom /\ hasTo
             /\ ~isValidDateRange(parseDate(existingProperty.availableFrom),
                                  availableToDate)
       THEN Reject("BadRequest",
              "Available to date must be after existing available from date")
     ELSE IF dto.pricePerNight # NoPrice /\ ~isPositiveNumber(dto.pricePerNight)
       THEN Reject("BadRequest", "Price per night must be a positive number")
     ELSE /\ properties' = [properties EXCEPT ![id] =
               [pricePerNight |-> IF dto.pricePerNight # NoPrice
                                    THEN dto.pricePerNight ELSE @.pricePerNight,
                availableFrom |-> IF hasFrom THEN availableFromDate
                                  ELSE @.availableFrom,
                availableTo   |-> IF hasTo THEN availableToDate
                                  ELSE @.availableTo,
                status        |-> @.status]]
          /\ response' = Response("properties.update", "Success",
               "Property updated successfully", [id |-> id])

\* remove: prisma.property.delete deletes the row unless a booking references
\* it (Booking_propertyId_fkey ON DELETE RESTRICT), in which case it throws.
PropertiesService_remove(id) ==
  /\ Receive("properties.remove", id, None)
  /\ UNCHANGED <<propertyCount, bookings, now>>
  /\ IF id \notin DOMAIN properties
       THEN /\ response' = Response("properties.remove", "NotFound",
                 "Property not found", None)
            /\ UNCHANGED properties
     ELSE IF \E i \in 1..Len(bookings) : bookings[i].propertyId = id
       THEN /\ response' = Response("properties.remove", "InternalError",
                 "Internal server error", None)
            /\ UNCHANGED properties
     ELSE /\ properties' = [i \in DOMAIN properties \ {id} |-> properties[i]]
          /\ response' = Response("properties.remove", "Success",
               "Property deleted successfully",
               [id |-> id,
                availableFrom |-> toISODate(properties[id].availableFrom),
                availableTo   |-> toISODate(properties[id].availableTo)])

(***************************************************************************)
(* BookingsService                                                         *)
(***************************************************************************)
\* Mutant of overlappingBookings: lt / gt in place of lte / gte, so that a
\* range touching another end to start counts as overlapping it.
overlappingBookings_closed(rows, propertyId, startDateObj, endDateObj) ==
  SelectSeq([i \in 1..Len(rows) |-> i], LAMBDA i :
    /\ rows[i].propertyId = propertyId
    /\ ~(rows[i].endDate < startDateObj)
    /\ ~(rows[i].startDate > endDateObj))

\* Mutant of overlappingBookings: the rows of every property are scanned.
overlappingBookings_anyProperty(rows, propertyId, startDateObj, endDateObj) ==
  SelectSeq([i \in 1..Len(rows) |-> i], LAMBDA i :
    /\ ~(rows[i].endDate <= startDateObj)
    /\ ~(rows[i].startDate >= endDateObj))

\* booking.findMany({ where: { propertyId, NOT: [{ endDate: { lte: start } },
\*                                              { startDate: { gte: end } }] } })
\* as the list of the matching rows' ids in table order.
overlappingBookings(rows, propertyId, startDateObj, endDateObj) ==
  SelectSeq([i \in 1..Len(rows) |-> i], LAMBDA i :
    /\ rows[i].propertyId = propertyId
    /\ ~(rows[i].endDate <= startDateObj)
    /\ ~(rows[i].startDate >= endDateObj))

\* Mutant of overlaps: only the first conflicting booking is reported.
overlaps_firstOnly(rows, ids) ==
  [k \in 1..1 |->
     [startDate |-> toISODate(rows[ids[k]].startDate),
      endDate   |-> toISODate(rows[ids[k]].endDate)]]

\* overlappingBookings.map(b => ({ startDate: ...slice(0, 10), endDate: ... }))
overlaps(rows, ids) ==
  [k \in 1..Len(ids) |->
     [startDate |-> toISODate(rows[ids[k]].startDate),
      endDate   |-> toISODate(rows[ids[k]].endDate)]]

\* Mutant of outsideAvailability: the bounds of the window are excluded.
outsideAvailability_exclusive(property, startDateObj, endDateObj) ==
  \/ startDateObj <= property.availableFrom
  \/ endDateObj >= property.availableTo

\* startDateObj < property.availableFrom || endDateObj > property.availableTo
outsideAvailability(property, startDateObj, endDateObj) ==
  \/ startDateObj < property.availableFrom
  \/ endDateObj > property.availableTo

\* Mutant of BookingsService.create: the property is looked up before the
\* dates are checked.
BookingsService_create_propertyFirst(dto) ==
  LET startDateObj == parseDate(dto.startDate)
      endDateObj   == parseDate(dto.endDate)
      found        == dto.propertyId \in DOMAIN properties
      property     == properties[dto.propertyId]
      conflicts    == overlappingBookings(bookings, dto.propertyId,
                                          startDateObj, endDateObj)
      id           == Len(bookings) + 1
  IN
  /\ Receive("bookings.create", NoId, dto)
  /\ UNCHANGED <<properties, propertyCount, now>>
  /\ IF ~found
       THEN /\ response' = Response("bookings.create", "NotFound",
                 "Property not found", None)
            /\ UNCHANGED bookings
     ELSE IF ~isValidDateRange(startDateObj, endDateObj)
       THEN /\ response' = Response("bookings.create", "BadRequest",
                 "Start date must be before end date", None)
            /\ UNCHANGED bookings
     ELSE IF ~isFutureDate(startDateObj, now)
       THEN /\ response' = Response("bookings.create", "BadRequest",
                 "Start date must be in the future", None)
            /\ UNCHANGED bookings
     ELSE IF outsideAvailability(property, startDateObj, endDateObj)
       THEN /\ response' = Response("bookings.create", "BadRequest",
                 "Booking dates must be within the property's availability range",
                 None)
            /\ UNCHANGED bookings
     ELSE IF Len(conflicts) > 0
       THEN /\ response' = Response("bookings.create", "Conflict",
                 "Booking dates overlap with existing bookings",
                 [overlaps  |-> overlaps(bookings, conflicts),
                  requested |-> [startDate |-> toISODate(startDateObj),
                                 endDate   |-> toISODate(endDateObj)]])
            /\ UNCHANGED bookings
     ELSE /\ id <= MaxBookings
          /\ bookings' = Append(bookings,
               [propertyId |-> dto.propertyId,
                userName   |-> dto.userName,
                startDate  |-> startDateObj,
                endDate    |-> endDateObj,
                status     |-> "confirmed",
                createdAt  |-> now])
          /\ response' = Response("bookings.create", "Success",
               "Booking created successfully",
               [id         |-> id,
                propertyId |-> dto.propertyId,
                userName   |-> dto.userName,
                startDate  |-> toISODate(startDateObj),
                endDate    |-> toISODate(endDateObj)])

\* Mutant of BookingsService.create: the row is stored although the overlap
\* scan found conflicts.
BookingsService_create_storeOnConflict(dto) ==
  LET startDateObj == parseDate(dto.startDate)
      endDateObj   == parseDate(dto.endDate)
      found        == dto.propertyId \in DOMAIN properties
      property     == properties[dto.propertyId]
      conflicts    == overlappingBookings(bookings, dto.propertyId,
                                          startDateObj, endDateObj)
      id           == Len(bookings) + 1
      row          == [propertyId |-> dto.propertyId,
                       userName   |-> dto.userName,
                       startDate  |-> startDateObj,
                       endDate    |-> endDateObj,
                       status     |-> "confirmed",
                       createdAt  |-> now]
  IN
  /\ Receive("bookings.create", NoId, dto)
  /\ UNCHANGED <<properties, propertyCount, now>>
  /\ IF ~isValidDateRange(startDateObj, endDateObj)
       THEN /\ response' = Response("bookings.create", "BadRequest",
                 "Start date must be before end date", None)
            /\ UNCHANGED bookings
     ELSE IF ~isFutureDate(startDateObj, now)
       THEN /\ response' = Response("bookings.create", "BadRequest",
                 "Start date must be in the future", None)
            /\ UNCHANGED bookings
     ELSE IF ~found
       THEN /\ response' = Response("bookings.create", "NotFound",
                 "Property not found", None)
            /\ UNCHANGED bookings
     ELSE IF outsideAvailability(property, startDateObj, endDateObj)
       THEN /\ response' = Response("bookings.create", "BadRequest",
                 "Booking dates must be within the property's availability range",
                 None)
            /\ UNCHANGED bookings
     ELSE IF Len(conflicts) > 0
       THEN /\ response' = Response("bookings.create", "Conflict",
                 "Booking dates overlap with existing bookings",
                 [overlaps  |-> overlaps(bookings, conflicts),
                  requested |-> [startDate |-> toISODate(startDateObj),
                                 endDate   |-> toISODate(endDateObj)]])
            /\ id <= MaxBookings
            /\ bookings' = Append(bookings, row)
     ELSE /\ id <= MaxBookings
          /\ bookings' = Append(bookings, row)
          /\ response' = Response("bookings.create", "Success",
               "Booking created successfully",
               [id         |-> id,
                propertyId |-> dto.propertyId,
                userName   |-> dto.userName,
                startDate  |-> toISODate(startDateObj),
                endDate    |-> toISODate(endDateObj)])

\* BookingsService.create
BookingsService_create(dto) ==
  LET startDateObj == parseDate(dto.startDate)
      endDateObj   == parseDate(dto.endDate)
      found        == dto.propertyId \in DOMAIN properties
      property     == properties[dto.propertyId]
      conflicts    == overlappingBookings(bookings, dto.propertyId,
                                          startDateObj, endDateObj)
      id           == Len(bookings) + 1
  IN
  /\ Receive("bookings.create", NoId, dto)
  /\ UNCHANGED <<properties, propertyCount, now>>
  /\ IF ~isValidDateRange(startDateObj, endDateObj)
       THEN /\ response' = Response("bookings.create", "BadRequest",
                 "Start date must be before end date", None)
            /\ UNCHANGED bookings
     ELSE IF ~isFutureDate(startDateObj, now)
       THEN /\ response' = Response("bookings.create", "BadRequest",
                 "Start date must be in the future", None)
            /\ UNCHANGED bookings
     ELSE IF ~found
       THEN /\ response' = Response("bookings.create", "NotFound",
                 "Property not found", None)
            /\ UNCHANGED bookings
     ELSE IF outsideAvailability(property, startDateObj, endDateObj)
       THEN /\ response' = Response("bookings.create", "BadRequest",
                 "Booking dates must be within the property's availability range",
                 None)
            /\ UNCHANGED bookings
     ELSE IF Len(conflicts) > 0
       THEN /\ response' = Response("bookings.create", "Conflict",
                 "Booking dates overlap with existing bookings",
                 [overlaps  |-> overlaps(bookings, conflicts),
                  requested |-> [startDate |-> toISODate(startDateObj),
                                 endDate   |-> toISODate(endDateObj)]])
            /\ UNCHANGED bookings
     ELSE /\ id <= MaxBookings
          /\ bookings' = Append(bookings,
               [propertyId |-> dto.propertyId,
                userName   |-> dto.userName,
                startDate  |-> startDateObj,
                endDate    |-> endDateObj,
                status     |-> "confirmed",
                createdAt  |-> now])
          /\ response' = Response("bookings.create", "Success",
               "Booking created successfully",
               [id         |-> id,
                propertyId |-> dto.propertyId,
                userName   |-> dto.userName,
                startDate  |-> toISODate(startDateObj),
                endDate    |-> toISODate(endDateObj)])

\* Mutant of checkPropertyAvailability: the third OR-ed condition (a row
\* lying inside the requested range) is missing.
checkPropertyAvailability_noInside(rows, propertyId, startDate, endDate, excludeBookingId) ==
  LET conflictingBookings == {i \in 1..Len(rows) :
        /\ rows[i].propertyId = propertyId
        /\ i # excludeBookingId
        /\ \/ rows[i].startDate <= startDate /\ rows[i].endDate > startDate
           \/ rows[i].startDate < endDate /\ rows[i].endDate >= endDate}
  IN  Cardinality(conflictingBookings) = 0

\* Mutant of checkPropertyAvailability: the booking being updated is not
\* excluded from the scan.
checkPropertyAvailability_noExclude(rows, propertyId, startDate, endDate, excludeBookingId) ==
  LET conflictingBookings == {i \in 1..Len(rows) :
        /\ rows[i].propertyId = propertyId
        /\ \/ rows[i].startDate <= startDate /\ rows[i].endDate > startDate
           \/ rows[i].startDate < endDate /\ rows[i].endDate >= endDate
           \/ rows[i].startDate >= startDate /\ rows[i].endDate <= endDate}
  IN  Cardinality(conflictingBookings) = 0

\* Mutant of checkPropertyAvailability: the first OR-ed condition (a row
\* that contains the requested start) is missing.
checkPropertyAvailability_noStartInside(rows, propertyId, startDate, endDate, excludeBookingId) ==
  LET conflictingBookings == {i \in 1..Len(rows) :
        /\ rows[i].propertyId = propertyId
        /\ i # excludeBookingId
        /\ \/ rows[i].startDate < endDate /\ rows[i].endDate >= endDate
           \/ rows[i].startDate >= startDate /\ rows[i].endDate <= endDate}
  IN  Cardinality(conflictingBookings) = 0

\* checkPropertyAvailability: no row of the property other than the excluded
\* one matches any of the three OR-ed date conditions.
checkPropertyAvailability(rows, propertyId, startDate, endDate, excludeBookingId) ==
  LET conflictingBookings == {i \in 1..Len(rows) :
        /\ rows[i].propertyId = propertyId
        /\ i # excludeBookingId
        /\ \/ rows[i].startDate <= startDate /\ rows[i].endDate > startDate
           \/ rows[i].startDate < endDate /\ rows[i].endDate >= endDate
           \/ rows[i].startDate >= startDate /\ rows[i].endDate <= endDate}
  IN  Cardinality(conflictingBookings) = 0

\* prisma.booking.update({ where: { id }, data }) succeeds iff the row exists
\* and the new propertyId, when given, references an existing Property
\* (Booking_propertyId_fkey).
BookingUpdateAccepted(id, dto) ==
  /\ id \in 1..Len(bookings)
  /\ dto.propertyId # NoId => dto.propertyId \in DOMAIN properties

\* Mutant of BookingsService.update: the updated booking is confirmed.
BookingsService_update_confirm(id, dto) ==
  LET exists       == id \in 1..Len(bookings)
      existing     == bookings[id]
      hasStart     == dto.startDate # None
      hasEnd       == dto.endDate # None
      startDateObj == NewDateString(dto.startDate)
      endDateObj   == NewDateString(dto.endDate)
      propertyId   == IF dto.propertyId # NoId THEN dto.propertyId
                      ELSE IF exists THEN existing.propertyId ELSE NoId
      startDate    == IF hasStart THEN startDateObj ELSE existing.startDate
      endDate      == IF hasEnd THEN endDateObj ELSE existing.endDate
      Reject(kind, message) ==
        /\ response' = Response("bookings.update", kind, message, None)
        /\ UNCHANGED bookings
  IN
  /\ Receive("bookings.update", id, dto)
  /\ UNCHANGED <<properties, propertyCount, now>>
  /\ IF hasStart /\ hasEnd /\ ~isValidDateRange(startDateObj, endDateObj)
       THEN Reject("BadRequest", "Start date must be before end date")
     ELSE IF hasStart /\ ~hasEnd /\ ~exists
       THEN Reject("BadRequest", "Existing endDate is missing")
     ELSE IF hasStart /\ ~hasEnd
             /\ ~isValidDateRange(startDateObj, existing.endDate)
       THEN Reject("BadRequest", "Start date must be before existing end date")
     ELSE IF ~hasStart /\ hasEnd /\ ~exists
       THEN Reject("BadRequest", "Existing startDate is missing")
     ELSE IF ~hasStart /\ hasEnd
             /\ ~isValidDateRange(existing.startDate, endDateObj)
       THEN Reject("BadRequest", "End date must be after existing start date")
     ELSE IF hasStart /\ ~isFutureDate(startDateObj, now)
       THEN Reject("BadRequest", "Start date must be in the future")
     ELSE IF (hasStart \/ hasEnd \/ dto.propertyId # NoId) /\ propertyId = NoId
       THEN Reject("BadRequest", "Property ID is missing")
     ELSE IF (hasStart \/ hasEnd \/ dto.propertyId # NoId)
             /\ ~exists /\ (~hasStart \/ ~hasEnd)
       THEN Reject("BadRequest", "Start date or end date is missing")
     ELSE IF (hasStart \/ hasEnd \/ dto.propertyId # NoId)
             /\ ~checkPropertyAvailability(bookings, propertyId,
                                           startDate, endDate, id)
       THEN Reject("Conflict",
                   "Property is not available for the requested dates")
     ELSE IF ~BookingUpdateAccepted(id, dto)
       THEN Reject("InternalError", "Internal server error")
     ELSE /\ bookings' = [bookings EXCEPT ![id] =
               [propertyId |-> IF dto.propertyId # NoId
                                 THEN dto.propertyId ELSE @.propertyId,
                userName   |-> IF dto.userName # NoName
                                 THEN dto.userName ELSE @.userName,
                startDate  |-> IF hasStart THEN startDateObj ELSE @.startDate,
                endDate    |-> IF hasEnd THEN endDateObj ELSE @.endDate,
                status     |-> "confirmed",
                createdAt  |-> @.createdAt]]
          /\ response' = Response("bookings.update", "Success",
               "Booking updated successfully", [id |-> id])

\* BookingsService.update
BookingsService_update(id, dto) ==
  LET exists       == id \in 1..Len(bookings)
      existing     == bookings[id]
      hasStart     == dto.startDate # None
      hasEnd       == dto.endDate # None
      startDateObj == NewDateString(dto.startDate)
      endDateObj   == NewDateString(dto.endDate)
      propertyId   == IF dto.propertyId # NoId THEN dto.propertyId
                      ELSE IF exists THEN existing.propertyId ELSE NoId
      startDate    == IF hasStart THEN startDateObj ELSE existing.startDate
      endDate      == IF hasEnd THEN endDateObj ELSE existing.endDate
      Reject(kind, message) ==
        /\ response' = Response("bookings.update", kind, message, None)
        /\ UNCHANGED bookings
  IN
  /\ Receive("bookings.update", id, dto)
  /\ UNCHANGED <<properties, propertyCount, now>>
  /\ IF hasStart /\ hasEnd /\ ~isValidDateRange(startDateObj, endDateObj)
       THEN Reject("BadRequest", "Start date must be before end date")
     ELSE IF hasStart /\ ~hasEnd /\ ~exists
       THEN Reject("BadRequest", "Existing endDate is missing")
     ELSE IF hasStart /\ ~hasEnd
             /\ ~isValidDateRange(startDateObj, existing.endDate)
       THEN Reject("BadRequest", "Start date must be before existing end date")
     ELSE IF ~hasStart /\ hasEnd /\ ~exists
       THEN Reject("BadRequest", "Existing startDate is missing")
     ELSE IF ~hasStart /\ hasEnd
             /\ ~isValidDateRange(existing.startDate, endDateObj)
       THEN Reject("BadRequest", "End date must be after existing start date")
     ELSE IF hasStart /\ ~isFutureDate(startDateObj, now)
       THEN Reject("BadRequest", "Start date must be in the future")
     ELSE IF (hasStart \/ hasEnd \/ dto.propertyId # NoId) /\ propertyId = NoId
       THEN Reject("BadRequest", "Property ID is missing")
     ELSE IF (hasStart \/ hasEnd \/ dto.propertyId # NoId)
             /\ ~exists /\ (~hasStart \/ ~hasEnd)
       THEN Reject("BadRequest", "Start date or end date is missing")
     ELSE IF (hasStart \/ hasEnd \/ dto.propertyId # NoId)
             /\ ~checkPropertyAvailability(bookings, propertyId,
                                           startDate, endDate, id)
       THEN Reject("Conflict",
                   "Property is not available for the requested dates")
     ELSE IF ~BookingUpdateAccepted(id, dto)
       THEN Reject("InternalError", "Internal server error")
     ELSE /\ bookings' = [bookings EXCEPT ![id] =
               [propertyId |-> IF dto.propertyId # NoId
                                 THEN dto.propertyId ELSE @.propertyId,
                userName   |-> IF dto.userName # NoName
                                 THEN dto.userName ELSE @.userName,
                startDate  |-> IF hasStart THEN startDateObj ELSE @.startDate,
                endDate    |-> IF hasEnd THEN endDateObj ELSE @.endDate,
                status     |-> @.status,
                createdAt  |-> @.createdAt]]
          /\ response' = Response("bookings.update", "Success",
               "Booking updated successfully", [id |-> id])

\* findOne: a missing booking is answered with ResponseHelper.error(...),
\* returned, not thrown.
BookingsService_findOne(id) ==
  /\ Receive("bookings.findOne", id, None)
  /\ UNCHANGED <<properties, propertyCount, bookings, now>>
  /\ IF id \notin 1..Len(bookings)
       THEN response' = Response("bookings.findOne", "ErrorBody",
                                 "Failed to delete a booking", None)
       ELSE response' = Response("bookings.findOne", "Success",
              "Booking retrieved successfully",
              [id |-> id, propertyId |-> bookings[id].propertyId,
               startDate |-> bookings[id].startDate,
               endDate |-> bookings[id].endDate,
               status |-> bookings[id].status])

\* Mutant of BookingsService_remove: a cancelled booking is confirmed again.
BookingsService_remove_reopen(id) ==
  /\ Receive("bookings.remove", id, None)
  /\ UNCHANGED <<properties, propertyCount, now>>
  /\ IF id \notin 1..Len(bookings)
       THEN /\ response' = Response("bookings.remove", "ErrorBody",
                 "Booking not found", None)
            /\ UNCHANGED bookings
       ELSE /\ bookings' = [bookings EXCEPT ![id].status =
                 IF @ = "cancelled" THEN "confirmed" ELSE "cancelled"]
            /\ response' = Response("bookings.remove", "Success",
                 "Booking cancelled successfully", [id |-> id])

\* Mutant of BookingsService_remove: every booking of the same property is
\* cancelled with it.
BookingsService_remove_cancelAll(id) ==
  /\ Receive("bookings.remove", id, None)
  /\ UNCHANGED <<properties, propertyCount, now>>
  /\ IF id \notin 1..Len(bookings)
       THEN /\ response' = Response("bookings.remove", "ErrorBody",
                 "Booking not found", None)
            /\ UNCHANGED bookings
       ELSE /\ bookings' = [i \in 1..Len(bookings) |->
                 IF bookings[i].propertyId = bookings[id].propertyId
                   THEN [bookings[i] EXCEPT !.status = "cancelled"]
                   ELSE bookings[i]]
            /\ response' = Response("bookings.remove", "Success",
                 "Booking cancelled successfully", [id |-> id])

BookingsService_remove(id) ==
  /\ Receive("bookings.remove", id, None)
  /\ UNCHANGED <<properties, propertyCount, now>>
  /\ IF id \notin 1..Len(bookings)
       THEN /\ response' = Response("bookings.remove", "ErrorBody",
                 "Booking not found", None)
            /\ UNCHANGED bookings
       ELSE /\ bookings' = [bookings EXCEPT ![id].status = "cancelled"]
            /\ response' = Response("bookings.remove", "Success",
                 "Booking cancelled successfully", [id |-> id])

(***************************************************************************)
(* Requests handled one at a time.                                         *)
(***************************************************************************)
\* Windows opening on a day of the first month and closing on the mirrored
\* day of the last month: the widest window, then narrower ones inside it.
CreatePropertyDtos ==
  {[availableFrom |-> <<d, 1, y>>, availableTo |-> <<MaxDay + 1 - d, MaxMonth, y>>,
    pricePerNight |-> p] : d \in 1..MaxDay, y \in Years, p \in Prices}

CreateBookingDtos ==
  [propertyId : PropertyIds, userName : {"Ada"},
   startDate : DateStrings, endDate : DateStrings]

\* "13-01-2025": a valid DD-MM-YYYY date that V8 cannot read as MM-DD-YYYY.
UpdateDateStrings == DateStrings \cup {<<13, 1, 2025>>}

UpdateBookingDtos ==
  [propertyId : PropertyIds \cup {NoId}, userName : {NoName},
   startDate : UpdateDateStrings \cup {None},
   endDate : UpdateDateStrings \cup {None}]

Next ==
  \/ Return
  \/ \E dto \in CreatePropertyDtos : PropertiesService_create(dto)
  \/ \E dto \in CreateBookingDtos : BookingsService_create(dto)
  \/ \E id \in BookingIds, dto \in UpdateBookingDtos :
       BookingsService_update(id, dto)
  \/ \E id \in BookingIds : BookingsService_remove(id)
  \/ \E id \in BookingIds : BookingsService_findOne(id)

Spec == Init /\ [][Next]_vars

\* One window covering every date a request can name.
ConcPropertyDtos ==
  {[availableFrom |-> <<1, 1, y>>, availableTo |-> <<MaxDay, MaxMonth, y>>,
    pricePerNight |-> 150] : y \in Years}

\* Date strings with day 1 or month 1.  create reads them as DD-MM-YYYY and
\* update's new Date() as MM-DD-YYYY; either way they name the same set of
\* days.
ConcDateStrings == {s \in DateStrings : s[1] = 1 \/ s[2] = 1}

ConcCreateBookingDtos ==
  [propertyId : PropertyIds, userName : {"Ada"},
   startDate : ConcDateStrings, endDate : ConcDateStrings]

\* The dates of an update: one of them, or both in order.
ConcUpdateDates ==
  {<<s, None>> : s \in ConcDateStrings} \cup
  {<<None, e>> : e \in ConcDateStrings} \cup
  {d \in ConcDateStrings \X ConcDateStrings :
     NewDateString(d[1]) < NewDateString(d[2])}

\* An update changes the dates of a booking or moves it to a property.
ConcUpdateBookingDtos ==
  {[propertyId |-> NoId, userName |-> NoName,
    startDate |-> d[1], endDate |-> d[2]] : d \in ConcUpdateDates} \cup
  {[propertyId |-> p, userName |-> NoName,
    startDate |-> None, endDate |-> None] : p \in PropertyIds}

(***************************************************************************)
(* The property routes, with bookings created and cancelled in between.    *)
(***************************************************************************)
\* An update changes the window, one bound or both, or the price.
UpdatePropertyDtos ==
  {[availableFrom |-> f, availableTo |-> u, pricePerNight |-> NoPrice] :
     f \in ConcDateStrings \cup {None}, u \in ConcDateStrings \cup {None}} \cup
  {[availableFrom |-> None, availableTo |-> None, pricePerNight |-> p] :
     p \in Prices}

NextProps ==
  \/ Return
  \/ \E dto \in CreatePropertyDtos : PropertiesService_create(dto)
  \/ \E id \in PropertyIds, dto \in UpdatePropertyDtos :
       PropertiesService_update(id, dto)
  \/ \E id \in PropertyIds : PropertiesService_remove(id)
  \/ \E id \in PropertyIds : PropertiesService_findOne(id)
  \/ \E id \in PropertyIds : PropertiesService_getAvailability(id)
  \/ \E dto \in ConcCreateBookingDtos : BookingsService_create(dto)
  \/ \E id \in BookingIds : BookingsService_remove(id)

SpecProps == Init /\ [][NextProps]_vars

(***************************************************************************)
(* Bookings created while the clock advances.                              *)
(***************************************************************************)
NextClock ==
  \/ Return
  \/ Tick
  \/ \E dto \in CreatePropertyDtos : PropertiesService_create(dto)
  \/ \E dto \in CreateBookingDtos : BookingsService_create(dto)

SpecClock == Init /\ [][NextClock]_vars

(***************************************************************************)
(* Writes the database refuses.  Each handler below is the handler of the  *)
(* same name for a request that passes every check and reaches its prisma  *)
(* write, which throws.                                                    *)
(***************************************************************************)
\* error.message of the error prisma throws.
PersistenceError == "Can't reach database server"

\* The handler ends without having written anything.
WriteFailed(op, id, dto, kind, message, data) ==
  /\ Receive(op, id, dto)
  /\ UNCHANGED <<properties, propertyCount, bookings, now>>
  /\ response' = Response(op, kind, message, data)

\* catch: throw new InternalServerErrorException('An error occurred ...')
BookingsService_create_writeFails(dto) ==
  LET startDateObj == parseDate(dto.startDate)
      endDateObj   == parseDate(dto.endDate)
  IN
  /\ isValidDateRange(startDateObj, endDateObj)
  /\ isFutureDate(startDateObj, now)
  /\ dto.propertyId \in DOMAIN properties
  /\ ~outsideAvailability(properties[dto.propertyId], startDateObj, endDateObj)
  /\ Len(overlappingBookings(bookings, dto.propertyId,
                             startDateObj, endDateObj)) = 0
  /\ WriteFailed("bookings.create", NoId, dto, "InternalError",
                 "An error occurred while creating the booking", None)

\* catch: throw error; the error is not an HttpException and is answered
\* with status 500 and 'Internal server error'.
BookingsService_update_writeFails(id, dto) ==
  LET existing     == bookings[id]
      hasStart     == dto.startDate # None
      hasEnd       == dto.endDate # None
      startDateObj == NewDateString(dto.startDate)
      endDateObj   == NewDateString(dto.endDate)
      propertyId   == IF dto.propertyId # NoId THEN dto.propertyId
                      ELSE existing.propertyId
      startDate    == IF hasStart THEN startDateObj ELSE existing.startDate
      endDate      == IF hasEnd THEN endDateObj ELSE existing.endDate
  IN
  /\ id \in 1..Len(bookings)
  /\ hasStart /\ hasEnd => isValidDateRange(startDateObj, endDateObj)
  /\ hasStart /\ ~hasEnd => isValidDateRange(startDateObj, existing.endDate)
  /\ ~hasStart /\ hasEnd => isValidDateRange(existing.startDate, endDateObj)
  /\ hasStart => isFutureDate(startDateObj, now)
  /\ (hasStart \/ hasEnd \/ dto.propertyId # NoId)
       => checkPropertyAvailability(bookings, propertyId, startDate, endDate, id)
  /\ WriteFailed("bookings.update", id, dto, "InternalError",
                 "Internal server error", None)

\* catch: return ResponseHelper.error('Failed to cancel booking',
\* error.message || 'Unknown error', 'error'): a returned body whose path
\* field holds the error's message.
BookingsService_remove_writeFails(id) ==
  /\ id \in 1..Len(bookings)
  /\ WriteFailed("bookings.remove", id, None, "ErrorBody",
                 "Failed to cancel booking",
                 [path |-> PersistenceError, method |-> "error"])

\* catch: return ResponseHelper.error('Failed to create property',
\* error.message)
PropertiesService_create_writeFails(dto) ==
  /\ isValidDateRange(PropertiesService_create_parseDate(dto.availableFrom),
                      PropertiesService_create_parseDate(dto.availableTo))
  /\ isPositiveNumber(dto.pricePerNight)
  /\ WriteFailed("properties.create", NoId, dto, "ErrorBody",
                 "Failed to create property",
                 [path |-> PersistenceError, method |-> None])

\* catch: throw error
PropertiesService_update_writeFails(id, dto) ==
  LET hasFrom           == dto.availableFrom # None
      hasTo             == dto.availableTo # None
      availableFromDate == parseDate(dto.availableFrom)
      availableToDate   == parseDate(dto.availableTo)
      existingProperty  == formattedProperty(id)
  IN
  /\ id \in DOMAIN properties
  /\ hasFrom /\ hasTo => isValidDateRange(availableFromDate, availableToDate)
  /\ hasFrom /\ ~hasTo
       => isValidDateRange(availableFromDate,
                           parseDate(existingProperty.availableTo))
  /\ ~hasFrom /\ hasTo
       => isValidDateRange(parseDate(existingProperty.availableFrom),
                           availableToDate)
  /\ dto.pricePerNight # NoPrice => isPositiveNumber(dto.pricePerNight)
  /\ WriteFailed("properties.update", id, dto, "InternalError",
                 "Internal server error", None)

\* catch: throw error
PropertiesService_remove_writeFails(id) ==
  /\ id \in DOMAIN properties
  /\ WriteFailed("properties.remove", id, None, "InternalError",
                 "Internal server error", None)

\* Some write of some handler was refused.
PersistenceFailure ==
  \/ \E dto \in ConcCreateBookingDtos : BookingsService_create_writeFails(dto)
  \/ \E id \in BookingIds, dto \in ConcUpdateBookingDtos :
       BookingsService_update_writeFails(id, dto)
  \/ \E id \in BookingIds : BookingsService_remove_writeFails(id)
  \/ \E dto \in CreatePropertyDtos : PropertiesService_create_writeFails(dto)
  \/ \E id \in PropertyIds, dto \in UpdatePropertyDtos :
       PropertiesService_update_writeFails(id, dto)
  \/ \E id \in PropertyIds : PropertiesService_remove_writeFails(id)

NextFail ==
  \/ Return
  \/ \E dto \in CreatePropertyDtos : PropertiesService_create(dto)
  \/ \E dto \in ConcCreateBookingDtos : BookingsService_create(dto)
  \/ \E dto \in ConcCreateBookingDtos : BookingsService_create_writeFails(dto)
  \/ \E id \in BookingIds, dto \in ConcUpdateBookingDtos :
       BookingsService_update_writeFails(id, dto)
  \/ \E id \in BookingIds : BookingsService_remove_writeFails(id)
  \/ \E dto \in CreatePropertyDtos : PropertiesService_create_writeFails(dto)
  \/ \E id \in PropertyIds, dto \in UpdatePropertyDtos :
       PropertiesService_update_writeFails(id, dto)
  \/ \E id \in PropertyIds : PropertiesService_remove_writeFails(id)

SpecFail == Init /\ [][NextFail]_vars

(***************************************************************************)
(* Bookings updated after the clock has passed their start.                *)
(***************************************************************************)
\* The updates of ConcUpdateBookingDtos, and one that renames the guest only.
PastUpdateBookingDtos ==
  ConcUpdateBookingDtos \cup
  {[propertyId |-> NoId, userName |-> "Bob", startDate |-> None, endDate |-> None]}

NextPast ==
  \/ Return
  \/ Tick
  \/ \E dto \in ConcPropertyDtos : PropertiesService_create(dto)
  \/ \E dto \in ConcCreateBookingDtos : BookingsService_create(dto)
  \/ \E id \in BookingIds, dto \in PastUpdateBookingDtos :
       BookingsService_update(id, dto)
  \/ \E id \in BookingIds : BookingsService_remove(id)

SpecPast == Init /\ [][NextPast]_vars

(***************************************************************************)
(* Exceptions answered through HttpExceptionFilter.                        *)
(***************************************************************************)
\* JSON null.
Null == [null |-> TRUE]

\* ResponseHelper.error(message, path, method)
ResponseHelper_error(message) ==
  [success |-> FALSE, message |-> message, data |-> Null]

\* The handler threw: its outcome is an exception, not yet a body.
Thrown ==
  /\ response.kind \in {"BadRequest", "NotFound", "Conflict", "InternalError"}
  /\ "body" \notin DOMAIN response.data

\* catch(exception, host): the message is taken from the exception's response
\* (the string itself, or the message field of the object) and the body sent
\* is ResponseHelper.error(message, request.path, request.method), under the
\* exception's status; an exception that is not an HttpException is answered
\* 'Internal server error'.
HttpExceptionFilter_catch ==
  /\ Thrown
  /\ response' = [response EXCEPT
                    !.data = [body |-> ResponseHelper_error(response.message)]]
  /\ UNCHANGED <<properties, propertyCount, bookings, now, request, before,
                 tasks>>

NextHttp ==
  \/ Return
  \/ HttpExceptionFilter_catch
  \/ \E dto \in CreatePropertyDtos : PropertiesService_create(dto)
  \/ \E dto \in CreateBookingDtos : BookingsService_create(dto)

SpecHttp == Init /\ [][NextHttp]_vars

(***************************************************************************)
(* The two overlap scans applied to the same row and range.                *)
(***************************************************************************)
\* Days from which the bounds of a stored and of a requested range are drawn.
RangeDays == {Epoch + k : k \in 0..MaxRangeDay}

\* A stored row [start, end) of property 1 is scanned for the requested range
\* [s, e) by create's findMany and by checkPropertyAvailability; the answer
\* holds whether each selected the row.
CompareScans(start, end, s, e) ==
  LET rows == <<[propertyId |-> 1, userName |-> "Ada", startDate |-> start,
                 endDate |-> end, status |-> "confirmed", createdAt |-> now]>>
  IN
  /\ Receive("bookings.scan", NoId,
             [existing  |-> [startDate |-> start, endDate |-> end],
              requested |-> [startDate |-> s, endDate |-> e]])
  /\ UNCHANGED <<properties, propertyCount, bookings, now>>
  /\ response' = Response("bookings.scan", "Value", "",
       [create |-> Len(overlappingBookings(rows, 1, s, e)) > 0,
        update |-> ~checkPropertyAvailability(rows, 1, s, e, NoId)])

NextScan ==
  \/ Return
  \/ \E start \in RangeDays, end \in RangeDays, s \in RangeDays, e \in RangeDays :
       CompareScans(start, end, s, e)

SpecScan == Init /\ [][NextScan]_vars

(***************************************************************************)
(* InputUtils applied to date strings of both shapes.                      *)
(***************************************************************************)
ParseYears == {2024, 2025}

\* "DD-MM-YYYY"-shaped strings, real dates or not, and the "YYYY-MM-DD"
\* strings of the same fields.
ParseStrings ==
  ((0..MaxDayField) \X (0..MaxMonthField) \X ParseYears) \cup
  (ParseYears \X (0..MaxMonthField) \X (0..MaxDayField))

\* The validator and the parser are applied to a date string; the answer
\* holds what each returned and the parsed date as create renders it.
InputUtils_parse(dateString) ==
  /\ Receive("InputUtils.parseDate", NoId, dateString)
  /\ UNCHANGED <<properties, propertyCount, bookings, now>>
  /\ response' = Response("InputUtils.parseDate", "Value", "",
       [isValidDateFormat |-> isValidDateFormat(dateString),
        date              |-> parseDate(dateString),
        rendered          |-> toISODate(parseDate(dateString))])

NextParse ==
  \/ Return
  \/ \E dateString \in ParseStrings : InputUtils_parse(dateString)

SpecParse == Init /\ [][NextParse]_vars

(***************************************************************************)
(* Requests in flight together.  A handler runs from one await to the next *)
(* as one step; each Prisma call it awaits reads or writes the tables at   *)
(* the instant of its own step, and other requests may step in between.    *)
(***************************************************************************)
\* Only the tasks move: the tables and the clock stay as they are.
TablesUntouched ==
  UNCHANGED <<properties, propertyCount, bookings, now, response, request, before>>

\* Task t is suspended at the await named pc.
At(t, pc) == response = NoResponse /\ tasks[t].pc = pc

\* Task t goes on to the await named pc, keeping the given locals.
Await(t, pc, locals) ==
  tasks' = [tasks EXCEPT ![t].pc = pc, ![t].locals = locals]

\* Task t ends by returning or throwing.
Finish(t, kind, message, data) ==
  tasks' = [tasks EXCEPT ![t].pc = "done", ![t].locals = None,
                         ![t].result = Response(tasks[t].op, kind, message, data)]

\* create, lines 121-139: parse and validate the dates, then ask for the
\* property.
Create_begin(t, dto) ==
  LET startDateObj == parseDate(dto.startDate)
      endDateObj   == parseDate(dto.endDate)
      Throw(message) ==
        tasks' = [tasks EXCEPT ![t] =
          Task("done", "bookings.create", NoId, dto, None,
               Response("bookings.create", "BadRequest", message, None))]
  IN
  /\ At(t, "idle")
  /\ TablesUntouched
  /\ IF ~isValidDateRange(startDateObj, endDateObj)
       THEN Throw("Start date must be before end date")
     ELSE IF ~isFutureDate(startDateObj, now)
       THEN Throw("Start date must be in the future")
     ELSE tasks' = [tasks EXCEPT ![t] =
            Task("property.findUnique", "bookings.create", NoId, dto, None,
                 NoResponse)]

\* create, lines 139-158: the property arrives; check it exists and that the
\* range is inside its window, then ask for the overlapping bookings.
Create_findProperty(t) ==
  LET dto          == tasks[t].dto
      startDateObj == parseDate(dto.startDate)
      endDateObj   == parseDate(dto.endDate)
  IN
  /\ At(t, "property.findUnique")
  /\ TablesUntouched
  /\ IF dto.propertyId \notin DOMAIN properties
       THEN Finish(t, "NotFound", "Property not found", None)
     ELSE IF outsideAvailability(properties[dto.propertyId],
                                 startDateObj, endDateObj)
       THEN Finish(t, "BadRequest",
              "Booking dates must be within the property's availability range",
              None)
     ELSE Await(t, "booking.findMany", None)

\* create, lines 158-189: the overlapping bookings arrive; reject if there
\* are any, else ask for the insert.
Create_findOverlaps(t) ==
  LET dto          == tasks[t].dto
      startDateObj == parseDate(dto.startDate)
      endDateObj   == parseDate(dto.endDate)
      conflicts    == overlappingBookings(bookings, dto.propertyId,
                                          startDateObj, endDateObj)
  IN
  /\ At(t, "booking.findMany")
  /\ TablesUntouched
  /\ IF Len(conflicts) > 0
       THEN Finish(t, "Conflict",
              "Booking dates overlap with existing bookings",
              [overlaps  |-> overlaps(bookings, conflicts),
               requested |-> [startDate |-> toISODate(startDateObj),
                              endDate   |-> toISODate(endDateObj)]])
     ELSE Await(t, "booking.create", None)

\* Mutant of Create_insert: the insert is not checked against
\* Booking_propertyId_fkey.
Create_insert_noForeignKey(t) ==
  LET dto          == tasks[t].dto
      startDateObj == parseDate(dto.startDate)
      endDateObj   == parseDate(dto.endDate)
      id           == Len(bookings) + 1
  IN
  /\ At(t, "booking.create")
  /\ UNCHANGED <<properties, propertyCount, now, response, request, before>>
  /\ IF FALSE
       THEN /\ Finish(t, "InternalError",
                 "An error occurred while creating the booking", None)
            /\ UNCHANGED bookings
       ELSE /\ id <= MaxBookings
            /\ bookings' = Append(bookings,
                 [propertyId |-> dto.propertyId,
                  userName   |-> dto.userName,
                  startDate  |-> startDateObj,
                  endDate    |-> endDateObj,
                  status     |-> "confirmed",
                  createdAt  |-> now])
            /\ Finish(t, "Success", "Booking created successfully",
                 [id         |-> id,
                  propertyId |-> dto.propertyId,
                  userName   |-> dto.userName,
                  startDate  |-> toISODate(startDateObj),
                  endDate    |-> toISODate(endDateObj)])

\* create, lines 189-215: the row is inserted.
Create_insert(t) ==
  LET dto          == tasks[t].dto
      startDateObj == parseDate(dto.startDate)
      endDateObj   == parseDate(dto.endDate)
      id           == Len(bookings) + 1
  IN
  /\ At(t, "booking.create")
  /\ UNCHANGED <<properties, propertyCount, now, response, request, before>>
  /\ IF dto.propertyId \notin DOMAIN properties
       THEN /\ Finish(t, "InternalError",
                 "An error occurred while creating the booking", None)
            /\ UNCHANGED bookings
       ELSE /\ id <= MaxBookings
            /\ bookings' = Append(bookings,
                 [propertyId |-> dto.propertyId,
                  userName   |-> dto.userName,
                  startDate  |-> startDateObj,
                  endDate    |-> endDateObj,
                  status     |-> "confirmed",
                  createdAt  |-> now])
            /\ Finish(t, "Success", "Booking created successfully",
                 [id         |-> id,
                  propertyId |-> dto.propertyId,
                  userName   |-> dto.userName,
                  startDate  |-> toISODate(startDateObj),
                  endDate    |-> toISODate(endDateObj)])

\* update, lines 255-264: the future check on a supplied startDate, then
\* whichever await comes next.
Update_afterRangeCheck(t, dto) ==
  LET hasStart == dto.startDate # None
      hasEnd   == dto.endDate # None
  IN
  IF hasStart /\ ~isFutureDate(NewDateString(dto.startDate), now)
    THEN Finish(t, "BadRequest", "Start date must be in the future", None)
  ELSE IF hasStart \/ hasEnd \/ dto.propertyId # NoId
    THEN Await(t, "booking.findUnique", None)
  ELSE Await(t, "booking.update", None)

\* update, lines 218-237: findOne (its outcome is discarded), then the range
\* check when both dates are supplied.
Update_begin(t, id, dto) ==
  LET hasStart == dto.startDate # None
      hasEnd   == dto.endDate # None
      called   == [tasks EXCEPT ![t] =
                    Task("findOne", "bookings.update", id, dto, None, NoResponse)]
  IN
  /\ At(t, "idle")
  /\ TablesUntouched
  /\ IF hasStart /\ hasEnd
          /\ ~isValidDateRange(NewDateString(dto.startDate),
                               NewDateString(dto.endDate))
       THEN tasks' = [called EXCEPT ![t].pc = "done",
              ![t].result = Response("bookings.update", "BadRequest",
                              "Start date must be before end date", None)]
     ELSE IF hasStart /\ hasEnd
       THEN IF ~isFutureDate(NewDateString(dto.startDate), now)
              THEN tasks' = [called EXCEPT ![t].pc = "done",
                     ![t].result = Response("bookings.update", "BadRequest",
                                     "Start date must be in the future", None)]
              ELSE tasks' = [called EXCEPT ![t].pc = "booking.findUnique"]
     ELSE IF hasStart \/ hasEnd
       THEN tasks' = [called EXCEPT ![t].pc = "booking.findUnique.range"]
     ELSE IF dto.propertyId # NoId
       THEN tasks' = [called EXCEPT ![t].pc = "booking.findUnique"]
     ELSE tasks' = [called EXCEPT ![t].pc = "booking.update"]

\* update, lines 237-252: the stored booking arrives for the range check of
\* a request that supplies one date only.
Update_findExistingForRange(t) ==
  LET id       == tasks[t].id
      dto      == tasks[t].dto
      exists   == id \in 1..Len(bookings)
      existing == bookings[id]
      hasStart == dto.startDate # None
  IN
  /\ At(t, "booking.findUnique.range")
  /\ TablesUntouched
  /\ IF hasStart /\ ~exists
       THEN Finish(t, "BadRequest", "Existing endDate is missing", None)
     ELSE IF hasStart /\ ~isValidDateRange(NewDateString(dto.startDate),
                                           existing.endDate)
       THEN Finish(t, "BadRequest",
                   "Start date must be before existing end date", None)
     ELSE IF ~hasStart /\ ~exists
       THEN Finish(t, "BadRequest", "Existing startDate is missing", None)
     ELSE IF ~hasStart /\ ~isValidDateRange(existing.startDate,
                                            NewDateString(dto.endDate))
       THEN Finish(t, "BadRequest",
                   "End date must be after existing start date", None)
     ELSE Update_afterRangeCheck(t, dto)

\* update, lines 264-275: the stored booking arrives; the range and property
\* to check are the supplied values, the stored ones for what is left out.
Update_findExisting(t) ==
  LET id         == tasks[t].id
      dto        == tasks[t].dto
      exists     == id \in 1..Len(bookings)
      existing   == bookings[id]
      hasStart   == dto.startDate # None
      hasEnd     == dto.endDate # None
      propertyId == IF dto.propertyId # NoId THEN dto.propertyId
                    ELSE IF exists THEN existing.propertyId ELSE NoId
      startDate  == IF hasStart THEN NewDateString(dto.startDate)
                    ELSE existing.startDate
      endDate    == IF hasEnd THEN NewDateString(dto.endDate)
                    ELSE existing.endDate
  IN
  /\ At(t, "booking.findUnique")
  /\ TablesUntouched
  /\ IF propertyId = NoId
       THEN Finish(t, "BadRequest", "Property ID is missing", None)
     ELSE IF ~exists /\ (~hasStart \/ ~hasEnd)
       THEN Finish(t, "BadRequest", "Start date or end date is missing", None)
     ELSE Await(t, "checkPropertyAvailability",
                [propertyId |-> propertyId, startDate |-> startDate,
                 endDate |-> endDate])

\* update, lines 275-290: the conflicting bookings arrive.
Update_checkPropertyAvailability(t) ==
  LET l == tasks[t].locals IN
  /\ At(t, "checkPropertyAvailability")
  /\ TablesUntouched
  /\ IF ~checkPropertyAvailability(bookings, l.propertyId, l.startDate,
                                   l.endDate, tasks[t].id)
       THEN Finish(t, "Conflict",
                   "Property is not available for the requested dates", None)
       ELSE Await(t, "booking.update", None)

\* update, lines 290-313: the row is written with the supplied fields.
Update_write(t) ==
  LET id       == tasks[t].id
      dto      == tasks[t].dto
      hasStart == dto.startDate # None
      hasEnd   == dto.endDate # None
  IN
  /\ At(t, "booking.update")
  /\ UNCHANGED <<properties, propertyCount, now, response, request, before>>
  /\ IF ~BookingUpdateAccepted(id, dto)
       THEN /\ Finish(t, "InternalError", "Internal server error", None)
            /\ UNCHANGED bookings
       ELSE /\ bookings' = [bookings EXCEPT ![id] =
                 [propertyId |-> IF dto.propertyId # NoId
                                   THEN dto.propertyId ELSE @.propertyId,
                  userName   |-> IF dto.userName # NoName
                                   THEN dto.userName ELSE @.userName,
                  startDate  |-> IF hasStart THEN NewDateString(dto.startDate)
                                 ELSE @.startDate,
                  endDate    |-> IF hasEnd THEN NewDateString(dto.endDate)
                                 ELSE @.endDate,
                  status     |-> @.status,
                  createdAt  |-> @.createdAt]]
            /\ Finish(t, "Success", "Booking updated successfully", [id |-> id])

\* Properties and bookings are first created by requests handled one at a
\* time; then MaxTasks requests arrive and are in flight together.
NextConc ==
  \/ Return
  \/ \E dto \in ConcPropertyDtos : PropertiesService_create(dto)
  \/ \E dto \in ConcCreateBookingDtos : BookingsService_create(dto)
  \/ \E t \in TaskIds, dto \in ConcCreateBookingDtos : Create_begin(t, dto)
  \/ \E t \in TaskIds : Create_findProperty(t)
  \/ \E t \in TaskIds : Create_findOverlaps(t)
  \/ \E t \in TaskIds : Create_insert(t)
  \/ \E t \in TaskIds, id \in BookingIds, dto \in ConcUpdateBookingDtos :
       Update_begin(t, id, dto)
  \/ \E t \in TaskIds : Update_findExistingForRange(t)
  \/ \E t \in TaskIds : Update_findExisting(t)
  \/ \E t \in TaskIds : Update_checkPropertyAvailability(t)
  \/ \E t \in TaskIds : Update_write(t)

SpecConc == Init /\ [][NextConc]_vars

(***************************************************************************)
(* Properties deleted while bookings are created and moved.                *)
(***************************************************************************)
\* remove, lines 316-320: findOne asks for the property.
Remove_begin(t, id) ==
  /\ At(t, "idle")
  /\ TablesUntouched
  /\ tasks' = [tasks EXCEPT ![t] =
       Task("remove.findOne", "properties.remove", id, None, None,
            NoResponse)]

\* findOne: the property arrives; NotFoundException if there is none, else
\* ask for the delete.
Remove_findOne(t) ==
  /\ At(t, "remove.findOne")
  /\ TablesUntouched
  /\ IF tasks[t].id \notin DOMAIN properties
       THEN Finish(t, "NotFound", "Property not found", None)
       ELSE Await(t, "property.delete", None)

\* remove, lines 322-350: prisma.property.delete throws when the row is gone
\* or a booking references it (ON DELETE RESTRICT); the error is rethrown.
Remove_delete(t) ==
  LET id == tasks[t].id
  IN
  /\ At(t, "property.delete")
  /\ UNCHANGED <<propertyCount, bookings, now, response, request, before>>
  /\ IF \/ id \notin DOMAIN properties
        \/ \E i \in 1..Len(bookings) : bookings[i].propertyId = id
       THEN /\ Finish(t, "InternalError", "Internal server error", None)
            /\ UNCHANGED properties
       ELSE /\ properties' = [i \in DOMAIN properties \ {id} |-> properties[i]]
            /\ Finish(t, "Success", "Property deleted successfully", [id |-> id])

\* An update that moves the booking to a property and changes nothing else.
MoveBookingDtos ==
  {[propertyId |-> p, userName |-> NoName, startDate |-> None, endDate |-> None] :
     p \in PropertyIds}

\* Properties and bookings are created, moved and deleted by requests handled
\* one at a time; then MaxTasks requests are in flight together.
NextRef ==
  \/ Return
  \/ \E dto \in ConcPropertyDtos : PropertiesService_create(dto)
  \/ \E dto \in ConcCreateBookingDtos : BookingsService_create(dto)
  \/ \E id \in BookingIds, dto \in MoveBookingDtos :
       BookingsService_update(id, dto)
  \/ \E id \in PropertyIds : PropertiesService_remove(id)
  \/ \E t \in TaskIds, dto \in ConcCreateBookingDtos : Create_begin(t, dto)
  \/ \E t \in TaskIds : Create_findProperty(t)
  \/ \E t \in TaskIds : Create_findOverlaps(t)
  \/ \E t \in TaskIds : Create_insert(t)
  \/ \E t \in TaskIds, id \in BookingIds, dto \in MoveBookingDtos :
       Update_begin(t, id, dto)
  \/ \E t \in TaskIds : Update_findExisting(t)
  \/ \E t \in TaskIds : Update_checkPropertyAvailability(t)
  \/ \E t \in TaskIds : Update_write(t)
  \/ \E t \in TaskIds, id \in PropertyIds : Remove_begin(t, id)
  \/ \E t \in TaskIds : Remove_findOne(t)
  \/ \E t \in TaskIds : Remove_delete(t)

SpecRef == Init /\ [][NextRef]_vars

(***************************************************************************)
(* Vocabulary of the properties.                                           *)
(***************************************************************************)
\* [s1, e1) and [s2, e2) overlap iff NOT (e1 <= s2 OR s1 >= e2).
RangesOverlap(s1, e1, s2, e2) == ~(e1 <= s2 \/ s1 >= e2)

Active(row) == row.status # "cancelled"

\* The window message of BookingsService.create.
WindowMessage ==
  "Booking dates must be within the property's availability range"

\* The bookings.create request just handled, as the service parsed it.
CreateHandled == request.op = "bookings.create"
CreateStart == parseDate(request.dto.startDate)
CreateEnd == parseDate(request.dto.endDate)

\* The create request just handled passed every check before the overlap
\* scan: ordered range, future start, existing property, inside the window.
CreateReachedOverlapScan ==
  /\ CreateHandled
  /\ CreateStart < CreateEnd
  /\ CreateStart > now
  /\ request.dto.propertyId \in DOMAIN before.properties
  /\ CreateStart >= before.properties[request.dto.propertyId].availableFrom
  /\ CreateEnd <= before.properties[request.dto.propertyId].availableTo

\* Ids of the rows of its property the create request just handled overlaps.
CreateOverlapped ==
  {i \in 1..Len(before.bookings) :
     /\ before.bookings[i].propertyId = request.dto.propertyId
     /\ RangesOverlap(before.bookings[i].startDate, before.bookings[i].endDate,
                      CreateStart, CreateEnd)}

\* Those of them that are not cancelled.
CreateOverlappedActive ==
  {i \in CreateOverlapped : Active(before.bookings[i])}

\* The bookings.update request just handled, on a booking that existed.
UpdateHandled ==
  request.op = "bookings.update" /\ request.id \in 1..Len(before.bookings)
UpdateHasStart == request.dto.startDate # None
UpdateHasEnd == request.dto.endDate # None
UpdateHasProperty == request.dto.propertyId # NoId
\* The range and property the update asks the booking to have: the supplied
\* values, the stored ones for the fields left out.
UpdateStart ==
  IF UpdateHasStart THEN NewDateString(request.dto.startDate)
  ELSE before.bookings[request.id].startDate
UpdateEnd ==
  IF UpdateHasEnd THEN NewDateString(request.dto.endDate)
  ELSE before.bookings[request.id].endDate
UpdateProperty ==
  IF UpdateHasProperty THEN request.dto.propertyId
  ELSE before.bookings[request.id].propertyId

(***************************************************************************)
(* Properties.                                                             *)
(***************************************************************************)
\* C2: with requests handled one at a time, no two non-cancelled bookings
\* of the same property ever have overlapping ranges.
C2_NoActiveOverlap ==
  \A i, j \in 1..Len(bookings) :
    (/\ i < j
     /\ bookings[i].propertyId = bookings[j].propertyId
     /\ Active(bookings[i]) /\ Active(bookings[j]))
    => ~RangesOverlap(bookings[i].startDate, bookings[i].endDate,
                      bookings[j].startDate, bookings[j].endDate)

\* A successful update of a booking's dates leaves it next to another active
\* booking of the same property.
C2_Witness ==
  /\ UpdateHandled /\ response.kind = "Success"
  /\ UpdateHasStart \/ UpdateHasEnd
  /\ bookings[request.id] # before.bookings[request.id]
  /\ \E j \in 1..Len(bookings) :
       /\ j # request.id
       /\ bookings[j].propertyId = bookings[request.id].propertyId
       /\ Active(bookings[j]) /\ Active(bookings[request.id])

\* C4: a create that passes the earlier checks and overlaps only cancelled
\* bookings of its property is admitted.
C4_CancelledExcluded ==
  (/\ CreateReachedOverlapScan
   /\ CreateOverlappedActive = {})
  => response.kind = "Success"

\* C5: a create that touches an existing booking of its property end to
\* start, and overlaps no booking of it, is not rejected as a conflict.
C5_BackToBackAdmitted ==
  (/\ CreateHandled
   /\ \E i \in 1..Len(before.bookings) :
        /\ before.bookings[i].propertyId = request.dto.propertyId
        /\ \/ CreateStart = before.bookings[i].endDate
           \/ CreateEnd = before.bookings[i].startDate
   /\ CreateOverlapped = {})
  => response.kind # "Conflict"

\* A booking was admitted that starts on the day an earlier one ends.
C5_Witness ==
  /\ CreateHandled /\ response.kind = "Success"
  /\ \E i \in 1..Len(before.bookings) :
       /\ before.bookings[i].propertyId = request.dto.propertyId
       /\ CreateStart = before.bookings[i].endDate

\* "DD-MM-YYYY" rewritten as "YYYY-MM-DD".
Canonical(dateString) == <<dateString[3], dateString[2], dateString[1]>>

\* C6: the conflict list of a rejected create holds exactly the bookings of
\* the requested property that overlap the requested range, each once, and
\* the rejection carries the requested range.
C6_ConflictListExact ==
  (CreateHandled /\ response.kind = "Conflict")
  => LET listed   == response.data.overlaps
         expected == CreateOverlapped
     IN  /\ expected # {}
         /\ Len(listed) = Cardinality(expected)
         /\ {listed[k] : k \in 1..Len(listed)} =
              {[startDate |-> CivilFromDays(before.bookings[i].startDate),
                endDate   |-> CivilFromDays(before.bookings[i].endDate)] :
                 i \in expected}
         /\ response.data.requested =
              [startDate |-> Canonical(request.dto.startDate),
               endDate   |-> Canonical(request.dto.endDate)]

\* A create was rejected with two conflicting bookings listed.
C6_Witness ==
  /\ CreateHandled /\ response.kind = "Conflict"
  /\ Len(response.data.overlaps) = 2

C7_WitnessRejected ==
  /\ CreateHandled /\ response.message = WindowMessage
  /\ CreateEnd > before.properties[request.dto.propertyId].availableTo
  /\ CreateStart >= before.properties[request.dto.propertyId].availableFrom

\* C8: after a successful update that supplies startDate, endDate or
\* propertyId, the booking lies inside the availability window of the
\* property it then references.
C8_UpdateRevalidatesWindow ==
  (/\ UpdateHandled /\ response.kind = "Success"
   /\ UpdateHasStart \/ UpdateHasEnd \/ UpdateHasProperty)
  => LET row      == bookings[request.id]
         property == properties[row.propertyId]
     IN  /\ row.startDate >= property.availableFrom
         /\ row.endDate <= property.availableTo

DateValues ==
  {parseDate(s) : s \in DateStrings} \cup
  ({NewDateString(s) : s \in UpdateDateStrings} \ {NaN})

TaskEnded(t) == tasks[t].pc = "done"
TaskAdmitted(t) == TaskEnded(t) /\ tasks[t].result.kind = "Success"
TaskCreates(t) == tasks[t].op = "bookings.create"
TaskUpdates(t) == tasks[t].op = "bookings.update"

\* The row the admitted request of task t inserted or wrote.
TaskRow(t) == IF TaskCreates(t) THEN tasks[t].result.data.id ELSE tasks[t].id

\* The rows other than those the admitted create requests in flight inserted.
RowsBeforeTasks ==
  {i \in 1..Len(bookings) :
     \A t \in TaskIds : ~(TaskCreates(t) /\ TaskAdmitted(t) /\ TaskRow(t) = i)}

\* The create request of task t is well formed and overlaps none of the rows
\* that were there before the requests in flight.
TaskCreateUnopposed(t) ==
  LET dto == tasks[t].dto
      s   == parseDate(dto.startDate)
      e   == parseDate(dto.endDate)
  IN
  /\ TaskCreates(t) /\ TaskEnded(t)
  /\ s < e /\ s > now
  /\ dto.propertyId \in DOMAIN properties
  /\ s >= properties[dto.propertyId].availableFrom
  /\ e <= properties[dto.propertyId].availableTo
  /\ \A i \in RowsBeforeTasks :
       bookings[i].propertyId = dto.propertyId
         => ~RangesOverlap(bookings[i].startDate, bookings[i].endDate, s, e)

\* C1: of two create requests in flight together for the same property and
\* overlapping ranges, neither overlapping an existing booking, exactly one
\* is admitted and the other is rejected with a Conflict.
C1_ExactlyOneAdmitted ==
  \A t1, t2 \in TaskIds :
    ( /\ t1 # t2
      /\ TaskCreateUnopposed(t1) /\ TaskCreateUnopposed(t2)
      /\ tasks[t1].dto.propertyId = tasks[t2].dto.propertyId
      /\ RangesOverlap(parseDate(tasks[t1].dto.startDate),
                       parseDate(tasks[t1].dto.endDate),
                       parseDate(tasks[t2].dto.startDate),
                       parseDate(tasks[t2].dto.endDate)) )
    => {tasks[t1].result.kind, tasks[t2].result.kind} = {"Success", "Conflict"}

\* C3: an update and another create or update in flight together are never
\* both admitted when they leave two bookings of one property with
\* overlapping ranges.
C3_AtMostOneAdmitted ==
  \A t1, t2 \in TaskIds :
    ( /\ t1 # t2
      /\ TaskUpdates(t1) /\ TaskAdmitted(t1)
      /\ TaskAdmitted(t2)
      /\ TaskRow(t1) # TaskRow(t2) )
    => ~ ( /\ bookings[TaskRow(t1)].propertyId = bookings[TaskRow(t2)].propertyId
           /\ RangesOverlap(bookings[TaskRow(t1)].startDate,
                            bookings[TaskRow(t1)].endDate,
                            bookings[TaskRow(t2)].startDate,
                            bookings[TaskRow(t2)].endDate) )

\* C11: every stored booking has startDate < endDate, also after updates
\* that supply one date only and after two updates of the same booking in
\* flight together.
C11_StoredRangesOrdered ==
  \A i \in 1..Len(bookings) : bookings[i].startDate < bookings[i].endDate

\* C12: a booking is inserted as confirmed; the only change of status any
\* step makes is confirmed -> cancelled; a cancelled booking stays cancelled;
\* no booking is ever pending; and no step removes a booking row.
C12_Lifecycle ==
  [][ /\ Len(bookings') >= Len(bookings)
      /\ \A i \in 1..Len(bookings) :
           \/ bookings'[i].status = bookings[i].status
           \/ /\ bookings[i].status = "confirmed"
              /\ bookings'[i].status = "cancelled"
      /\ \A i \in (Len(bookings) + 1)..Len(bookings') :
           bookings'[i].status = "confirmed"
      /\ \A i \in 1..Len(bookings') : bookings'[i].status # "pending"
    ]_vars

\* A cancelled booking was updated with success and is still cancelled.
C12_Witness ==
  /\ UpdateHandled /\ response.kind = "Success"
  /\ before.bookings[request.id].status = "cancelled"
  /\ bookings[request.id] # before.bookings[request.id]
  /\ bookings[request.id].status = "cancelled"

\* The bookings.remove request just handled, on a booking that existed.
RemoveHandled ==
  request.op = "bookings.remove" /\ request.id \in 1..Len(before.bookings)

\* C13: remove on a booking that is already cancelled changes no booking and
\* no property, and answers with success or with a no-op error.
C13_CancelIdempotent ==
  (RemoveHandled /\ before.bookings[request.id].status = "cancelled")
  => /\ bookings = before.bookings
     /\ properties = before.properties
     /\ response.kind \in {"Success", "ErrorBody"}

\* A cancelled booking was cancelled again while its property holds a
\* confirmed one.
C13_Witness ==
  /\ RemoveHandled /\ before.bookings[request.id].status = "cancelled"
  /\ response.kind = "Success"
  /\ \E j \in 1..Len(bookings) :
       /\ bookings[j].propertyId = bookings[request.id].propertyId
       /\ bookings[j].status = "confirmed"

\* A findOne or getAvailability of a property just answered with its data.
PropertyReadHandled ==
  /\ request.op \in {"properties.findOne", "properties.getAvailability"}
  /\ response.kind = "Success"

\* C14: the bookedDates of findOne and getAvailability are exactly the
\* ranges of the non-cancelled bookings of the property asked for.
C14_BookedDatesActive ==
  PropertyReadHandled
  => {response.data.bookedDates[k] :
        k \in 1..Len(response.data.bookedDates)} =
     {[startDate |-> CivilFromDays(bookings[i].startDate),
       endDate   |-> CivilFromDays(bookings[i].endDate)] :
        i \in {j \in 1..Len(bookings) :
                 /\ bookings[j].propertyId = request.id
                 /\ Active(bookings[j])}}

\* C15: every stored property has availableFrom < availableTo, whatever
\* creates and updates (of both bounds, or of one bound checked against the
\* stored other one) came before.
C15_WindowOrdered ==
  \A id \in DOMAIN properties :
    properties[id].availableFrom < properties[id].availableTo

\* C16: no request removes a property row, and a property removed with
\* success is still stored, with status inactive.
C16_SoftDelete ==
  /\ request.op # "none" => DOMAIN before.properties \subseteq DOMAIN properties
  /\ (request.op = "properties.remove" /\ response.kind = "Success")
     => /\ request.id \in DOMAIN properties
        /\ properties[request.id].status = "inactive"

\* C17: a request whose identifier does not resolve ends in NotFound and
\* changes nothing: a create, past its date checks, for a property that does
\* not exist, and a findOne, update or remove for a booking that does not
\* exist.
C17_UnresolvedIdNotFound ==
  /\ ( /\ CreateHandled
       /\ CreateStart < CreateEnd /\ CreateStart > now
       /\ request.dto.propertyId \notin DOMAIN before.properties )
     => response.kind = "NotFound" /\ Tables = before
  /\ ( /\ request.op \in {"bookings.findOne", "bookings.update",
                          "bookings.remove"}
       /\ request.id \notin 1..Len(before.bookings) )
     => response.kind = "NotFound" /\ Tables = before

\* The Gregorian calendar, stated independently of Date arithmetic.
IsLeapYear(y) == (y % 4 = 0 /\ y % 100 # 0) \/ y % 400 = 0

CalendarDays(y, m) ==
  IF m \in {1, 3, 5, 7, 8, 10, 12} THEN 31
  ELSE IF m \in {4, 6, 9, 11} THEN 30
  ELSE IF m = 2 THEN (IF IsLeapYear(y) THEN 29 ELSE 28)
  ELSE 0

\* <<y, m, d>> is a date of the calendar.
IsCalendarDate(y, m, d) == m \in 1..12 /\ d \in 1..CalendarDays(y, m)

\* A date string was just handed to InputUtils.
ParseHandled == request.op = "InputUtils.parseDate"
ParsedDDMMYYYY == ParseHandled /\ MatchesDDMMYYYY(request.dto)
ParsedISO == ParseHandled /\ ~MatchesDDMMYYYY(request.dto)

\* C18: the "DD-MM-YYYY" text and the "YYYY-MM-DD" text of a calendar date
\* parse to the same date, rendered as that date's "YYYY-MM-DD".
C18_FormatAgnostic ==
  /\ ( /\ ParsedDDMMYYYY
       /\ IsCalendarDate(request.dto[3], request.dto[2], request.dto[1]) )
     => response.data.rendered = Canonical(request.dto)
  /\ ( /\ ParsedISO
       /\ IsCalendarDate(request.dto[1], request.dto[2], request.dto[3]) )
     => /\ response.data.rendered = request.dto
        /\ response.data.date =
             parseDate(<<request.dto[3], request.dto[2], request.dto[1]>>)

CreateRangeFails == ~(CreateStart < CreateEnd)
CreateFutureFails == ~(CreateStart > now)
CreatePropertyMissing == request.dto.propertyId \notin DOMAIN before.properties
CreateWindowFails ==
  /\ ~CreatePropertyMissing
  /\ \/ CreateStart < before.properties[request.dto.propertyId].availableFrom
     \/ CreateEnd > before.properties[request.dto.propertyId].availableTo
CreateOverlapFails == CreateOverlapped # {}

\* The kind and message of the first check that fails, in the order range,
\* future start, property existence, window, overlap.
CreateFirstFailure ==
  IF CreateRangeFails
    THEN <<"BadRequest", "Start date must be before end date">>
  ELSE IF CreateFutureFails
    THEN <<"BadRequest", "Start date must be in the future">>
  ELSE IF CreatePropertyMissing THEN <<"NotFound", "Property not found">>
  ELSE IF CreateWindowFails THEN <<"BadRequest", WindowMessage>>
  ELSE IF CreateOverlapFails
    THEN <<"Conflict", "Booking dates overlap with existing bookings">>
  ELSE <<"Success", "Booking created successfully">>

\* C20: create answers with the rejection of the earliest failing check, in
\* the order range, future start, property existence, window, overlap; the
\* one answer is all it produces: a rejected request leaves the bookings as
\* they were.
C20_FirstFailingCheck ==
  CreateHandled
  => /\ <<response.kind, response.message>> = CreateFirstFailure
     /\ response.kind # "Success" => bookings = before.bookings

\* A request with start >= end for a property that does not exist was
\* answered with the range rejection.
C20_Witness ==
  /\ CreateHandled
  /\ CreateRangeFails /\ CreatePropertyMissing
  /\ response.kind = "BadRequest"
  /\ response.message = "Start date must be before end date"

\* A booking create or update was just handled and did not succeed.
BookingWriteRejected ==
  /\ request.op \in {"bookings.create", "bookings.update"}
  /\ response.kind # "Success"

\* C21: a create or update of a booking that ends in a rejection of any kind
\* leaves every booking, with all its fields, and every property exactly as
\* the request found them.
C21_NoPartialAdmission ==
  BookingWriteRejected
  => /\ bookings = before.bookings
     /\ properties = before.properties

\* An update of an existing booking was refused for a conflict while the
\* table held other bookings.
C21_Witness ==
  /\ BookingWriteRejected
  /\ request.op = "bookings.update"
  /\ response.kind = "Conflict"
  /\ Len(before.bookings) > 1

\* C22: a create whose dates are ordered and in the future, for a property that
\* exists, is refused with Conflict when it leaves the window and when it
\* overlaps; unordered and non-future dates are refused with BadRequest.
C22_WindowAndOverlapConflict ==
  CreateHandled
  => /\ (CreateRangeFails \/ CreateFutureFails) => response.kind = "BadRequest"
     /\ ( /\ ~CreateRangeFails /\ ~CreateFutureFails /\ ~CreatePropertyMissing
          /\ CreateWindowFails \/ CreateOverlapFails )
        => response.kind = "Conflict"

\* C23: a write the database refuses, in any of the six writing handlers,
\* ends the request with an InternalError of generic message that carries
\* nothing of the underlying error, never with a returned body.
C23_PersistenceFailureIsInternalError ==
  [][PersistenceFailure
       => /\ response'.kind = "InternalError"
          /\ response'.message # PersistenceError
          /\ response'.data = None]_vars

\* The exception of the request just handled has been through
\* HttpExceptionFilter: the response holds the body that is sent.
Filtered == "body" \in DOMAIN response.data

\* C24: the body sent for a create refused for an overlap still holds the
\* list of the overlapped ranges and the requested range, next to the message.
C24_ConflictPayloadSurvivesFilter ==
  (CreateHandled /\ response.kind = "Conflict" /\ Filtered)
  => /\ response.data.body.message = "Booking dates overlap with existing bookings"
     /\ {"overlaps", "requested"} \subseteq DOMAIN response.data.body
     /\ Len(response.data.body.overlaps) = Cardinality(CreateOverlapped)
     /\ response.data.body.requested =
          [startDate |-> toISODate(CreateStart), endDate |-> toISODate(CreateEnd)]

FutureMessage == "Start date must be in the future"

\* C25: create refuses every request whose start is not later than the clock;
\* update refuses a supplied start that is not later than the clock, and never
\* gives the future-start rejection to a request that supplies no startDate,
\* whatever the stored start is.
C25_FutureCheckScope ==
  /\ (CreateHandled /\ CreateFutureFails)
     => response.kind = "BadRequest" /\ bookings = before.bookings
  /\ (UpdateHandled /\ UpdateHasStart /\ ~(UpdateStart > now))
     => response.kind # "Success" /\ bookings = before.bookings
  /\ (UpdateHandled /\ ~UpdateHasStart) => response.message # FutureMessage

\* A booking whose stored start the clock has reached was updated, without a
\* startDate, and the update succeeded.
C25_Witness ==
  /\ UpdateHandled /\ ~UpdateHasStart
  /\ before.bookings[request.id].startDate <= now
  /\ response.kind = "Success"
  /\ bookings # before.bookings

\* C26: a successful update leaves the number of bookings, every other
\* booking, and the updated booking's status and createdAt as they were; of
\* propertyId, userName, startDate and endDate it sets the supplied ones to
\* the supplied values (the dates as update reads them) and keeps the others.
C26_UpdateFrame ==
  (UpdateHandled /\ response.kind = "Success")
  => LET old == before.bookings[request.id]
         new == bookings[request.id]
     IN  /\ Len(bookings) = Len(before.bookings)
         /\ \A i \in 1..Len(bookings) :
              i # request.id => bookings[i] = before.bookings[i]
         /\ new.status = old.status
         /\ new.createdAt = old.createdAt
         /\ new.propertyId = UpdateProperty
         /\ new.startDate = UpdateStart
         /\ new.endDate = UpdateEnd
         /\ new.userName = IF request.dto.userName # NoName
                             THEN request.dto.userName ELSE old.userName

\* A cancelled booking, created before the clock advanced, was renamed by a
\* successful update while another booking was stored.
C26_Witness ==
  /\ UpdateHandled /\ response.kind = "Success"
  /\ before.bookings[request.id].status = "cancelled"
  /\ before.bookings[request.id].createdAt < now
  /\ request.dto.userName = "Bob"
  /\ bookings[request.id].userName = "Bob"
  /\ Len(bookings) > 1

\* The rows, other than the updated one, of the property the update just
\* handled asks for, whose range overlaps the range it asks for.
UpdateOverlapped ==
  {j \in 1..Len(before.bookings) :
     /\ j # request.id
     /\ before.bookings[j].propertyId = UpdateProperty
     /\ RangesOverlap(before.bookings[j].startDate, before.bookings[j].endDate,
                      UpdateStart, UpdateEnd)}

\* C27: bookings of another property never block a request.  A create that
\* passed every check before the overlap scan and overlaps no booking of its
\* own property is admitted, whatever the bookings of other properties; an
\* update that names a property and got as far as the availability check is
\* refused for a conflict iff it overlaps another booking of the property it
\* names.
C27_OverlapPerProperty ==
  /\ (CreateReachedOverlapScan /\ CreateOverlapped = {})
     => response.kind = "Success"
  /\ ( /\ UpdateHandled /\ UpdateHasProperty
       /\ response.kind \in {"Conflict", "Success", "InternalError"} )
     => (response.kind = "Conflict" <=> UpdateOverlapped # {})

\* A create was admitted although its range overlaps a booking of another
\* property.
C27_Witness ==
  /\ CreateHandled /\ response.kind = "Success"
  /\ \E i \in 1..Len(before.bookings) :
       /\ before.bookings[i].propertyId # request.dto.propertyId
       /\ RangesOverlap(before.bookings[i].startDate, before.bookings[i].endDate,
                        CreateStart, CreateEnd)

\* A stored row and a requested range were just handed to both overlap scans.
ScanHandled == request.op = "bookings.scan"

\* C28: for a stored range with start < end and a requested range with
\* s < e, checkPropertyAvailability's three OR-ed conditions select the row
\* iff create's NOT (end <= s OR start >= e) selects it, and that is iff the
\* half-open ranges overlap.
C28_ScansAgree ==
  ( /\ ScanHandled
    /\ request.dto.existing.startDate < request.dto.existing.endDate
    /\ request.dto.requested.startDate < request.dto.requested.endDate )
  => /\ response.data.update <=> response.data.create
     /\ response.data.create
          <=> RangesOverlap(request.dto.existing.startDate,
                            request.dto.existing.endDate,
                            request.dto.requested.startDate,
                            request.dto.requested.endDate)

\* Both scans selected a stored row that begins before the requested range
\* and ends inside it: only the first of the three conditions matches it.
C28_Witness ==
  /\ ScanHandled
  /\ request.dto.existing.startDate < request.dto.requested.startDate
  /\ request.dto.requested.startDate < request.dto.existing.endDate
  /\ request.dto.existing.endDate < request.dto.requested.endDate
  /\ response.data.update /\ response.data.create

\* C29: every booking's propertyId names a stored property, whatever the
\* interleaving of the requests; a delete of a property that bookings
\* reference fails and changes nothing; an update that names a property that
\* does not exist fails and changes nothing.
C29_ReferentialIntegrity ==
  /\ \A i \in 1..Len(bookings) : bookings[i].propertyId \in DOMAIN properties
  /\ ( /\ request.op = "properties.remove"
       /\ \E i \in 1..Len(before.bookings) :
            before.bookings[i].propertyId = request.id )
     => response.kind # "Success" /\ Tables = before
  /\ ( /\ UpdateHandled /\ UpdateHasProperty
       /\ UpdateProperty \notin DOMAIN before.properties )
     => response.kind # "Success" /\ Tables = before
  /\ \A t \in TaskIds :
       (TaskAdmitted(t) /\ tasks[t].op = "properties.remove")
       => /\ tasks[t].id \notin DOMAIN properties
          /\ \A i \in 1..Len(bookings) : bookings[i].propertyId # tasks[t].id

\* A create found its property, the property was deleted by a request in
\* flight with it, and the insert was refused.
C29_Witness ==
  \E t \in TaskIds, u \in TaskIds :
    /\ TaskEnded(t) /\ TaskCreates(t)
    /\ tasks[t].result.kind = "InternalError"
    /\ TaskAdmitted(u) /\ tasks[u].op = "properties.remove"
    /\ tasks[u].id = tasks[t].dto.propertyId

\* C30: every booking that is not cancelled lies within the window its
\* property has now: startDate >= availableFrom and endDate <= availableTo.
C30_BookingsWithinWindow ==
  \A i \in 1..Len(bookings) :
    (Active(bookings[i]) /\ bookings[i].propertyId \in DOMAIN properties)
    => /\ bookings[i].startDate >= properties[bookings[i].propertyId].availableFrom
       /\ bookings[i].endDate <= properties[bookings[i].propertyId].availableTo

====
